---- MODULE Spec2Model ----
(***************************************************************************)
(* Sib-Cal: the EduBase 4x4 keypad driver (Keypad.c, listed in README.md)  *)
(* and the calculator control loop (main.c).                               *)
(*                                                                         *)
(* Characters are their ASCII codes, so that the code's range tests        *)
(* (key >= '0' && key <= '9') and its NUL terminators are what they are    *)
(* in C.  The entry buffer is the 17-byte array of main.c.  The LCD is the  *)
(* two lines of text that main.c's calls of the LCD driver leave on it.    *)
(***************************************************************************)
EXTENDS Integers, Sequences, FiniteSets, TLC

\* ------------------------------------------------------------------ bounds
\* The most keys the environment holds down at the same time.
MaxHeld == 2
\* The most key presses the environment makes in one run of Spec (four keys
\* under the fingers) and of SpecKeypad (all sixteen).
MaxPresses == 4
MaxPressesAll == 2
\* The most keys the driver hands to the control loop in one run of SpecCalc.
MaxKeys == 4
\* The most operator and '=' keys the driver hands over in one run of
\* SpecEntry (digits and '.' are not limited there).
MaxOpKeys == 2
\* The most keys of one operand in one run of SpecTyped.
MaxLit == 3
\* The most keys the driver hands over in one run of SpecChain.
MaxChainKeys == 7

\* ------------------------------------------------------- keypad constants
NumCols == 4
NumRows == 4
NoKey == -1

KeyIndices == 0 .. (NumCols * NumRows - 1)

\* static const char Keypad_Map[16], column-major: index = col*4 + row.
\* Fault-injection variant: the table filled row-major, as the layout is printed.
Keypad_Map_RowMajor ==
    [i \in KeyIndices |->
        << 55, 56, 57, 47,
           52, 53, 54, 42,
           49, 50, 51, 45,
           48, 46, 61, 43 >>[i + 1]]

Keypad_Map ==
    [i \in KeyIndices |->
        << 55, 52, 49, 48,      \* '7' '4' '1' '0'   K0..K3
           56, 53, 50, 46,      \* '8' '5' '2' '.'   K4..K7
           57, 54, 51, 61,      \* '9' '6' '3' '='   K8..K11
           47, 42, 45, 43 >>[i + 1]]  \* '/' '*' '-' '+' K12..K15

\* ------------------------------------------------------------- variables
VARIABLES
    pressed,        \* the keys physically held down (the matrix contacts)
    pc,             \* where the control thread is
    first,          \* Keypad_GetKeyIndex: int first
    second,         \* Keypad_GetKeyIndex: int second (NoKey when not taken)
    ret,            \* the value the last Keypad_GetKeyIndex call returned
    key,            \* Keypad_WaitForKeyIndex: int key
    stillPressed,   \* Keypad_WaitForKeyIndex: int stillPressed
    retChar,        \* the char the last Keypad_WaitForChar call returned
    live,           \* history: keys whose present physical press was confirmed
    repeat,         \* history: the confirmed press had been confirmed before
    nscans,         \* history: Keypad_ScanOnce calls of this Keypad_GetKeyIndex
    waited          \* history: the microseconds of debounce delay in it

kpvars == << pressed, pc, first, second, ret, key, stillPressed, retChar,
             live, repeat, nscans, waited >>

VARIABLES
    state,          \* CalcState state
    entry,          \* char entry[17]
    op1,            \* double op1
    op2,            \* double op2
    result,         \* double result
    current_op,     \* char current_op (0: none)
    lcd,            \* what the LCD shows, its cursor, and the last texts
    nkeys,          \* history: the keys counted against MaxKeys / MaxOpKeys
    npress,         \* history: how many times a key was pushed down
    typed,          \* history: the characters handed over in SpecTyped;
                    \*   in SpecChain, those of the present chained operation
    prev            \* history: result as it was when that operation began

calcvars == << state, entry, op1, op2, result, current_op >>

hist == << nkeys, npress, typed, prev >>

vars == << kpvars, calcvars, lcd, hist >>

\* --------------------------------------------------------- Keypad_ScanOnce
RECURSIVE Pow2(_)
Pow2(n) == IF n = 0 THEN 1 ELSE 2 * Pow2(n - 1)

\* (x & (1U << b)) != 0
BitSet(x, b) == (x \div Pow2(b)) % 2 = 1

\* What (ROW_PORT->DATA & ROW_MASK) >> ROW_SHIFT reads while column col alone
\* is driven high: bit row is high iff the key at (col, row) is closed.
RECURSIVE RowBits(_, _, _)
RowBits(p, col, row) ==
    IF row >= NumRows THEN 0
    ELSE (IF (col * 4 + row) \in p THEN Pow2(row) ELSE 0) + RowBits(p, col, row + 1)

RowData(p, col) == RowBits(p, col, 0)

\* Fault-injection variant: the inner loop runs from the top row down.
RECURSIVE RowLoopDown(_, _)
RowLoopDown(rowData, row) ==
    IF row >= NumRows THEN NoKey
    ELSE IF BitSet(rowData, (NumRows - 1) - row) THEN (NumRows - 1) - row
    ELSE RowLoopDown(rowData, row + 1)

\* for (int row = 0; row < 4; row++) if (rowData & (1U << row)) return ...
RECURSIVE RowLoop(_, _)
RowLoop(rowData, row) ==
    IF row >= NumRows THEN NoKey
    ELSE IF BitSet(rowData, row) THEN row
    ELSE RowLoop(rowData, row + 1)

\* for (int col = 0; col < 4; col++) { ... }  return -1;
RECURSIVE ColLoop(_, _)
ColLoop(p, col) ==
    IF col >= NumCols THEN NoKey
    ELSE LET rowData == RowData(p, col)
             row     == RowLoop(rowData, 0)
         IN  IF rowData # 0 /\ row # NoKey
             THEN (col * 4) + row
             ELSE ColLoop(p, col + 1)

Keypad_ScanOnce(p) == ColLoop(p, 0)

\* ------------------------------------------------------ Keypad_GetKeyIndex
\* Fault-injection variant: the second sample is returned uncompared.
DebounceNoCompare(f, s) == s

\* if (second == first) return first;  return -1;
Debounce(f, s) == IF s = f THEN f ELSE NoKey

\* Fault-injection variant: the debounce runs also when no key was seen.
FirstScanEmptyNever(f) == FALSE

\* if (first < 0) return -1;
FirstScanEmpty(f) == f < 0

\* SysTick_Delay1us(20000);
DebounceUs == 20000

\* --------------------------------------------------- Keypad_WaitForKeyIndex
\* Fault-injection variant: the release wait ends at once.
ReleaseLoopGivesUp(sp) == FALSE

\* while (stillPressed >= 0)
ReleaseLoopContinues(sp) == sp >= 0

\* while (key < 0)
PressLoopContinues(k) == k < 0

\* Fault-injection variant: the release loop reads into key.
KeptKeyOverwritten(k, r) == IF r >= 0 THEN r ELSE k

\* stillPressed = Keypad_GetKeyIndex(): key is not assigned in the release
\* loop
KeptKey(k, r) == k

\* ------------------------------------------------------------ doubles
\* A double is modelled by the exact rational n/d in lowest terms while
\* |n| and d stay within MaxMag, and by Untracked (d = 0) beyond that: a
\* double whose value the model does not follow.  strtod yields Untracked
\* only for a nonzero value.  Zero has a sign, as it has in IEEE 754: -0.0
\* is NegZero, equal to 0.0 in every comparison and printed "-0".
MaxMag == 9999

Untracked == [n |-> 0, d |-> 0]
Zero == [n |-> 0, d |-> 1]
NegZero == [n |-> 0, d |-> -1]

Abs(x) == IF x < 0 THEN -x ELSE x

RECURSIVE GCD(_, _)
GCD(a, b) == IF b = 0 THEN a ELSE GCD(b, a % b)

Rat(n, d) ==
    IF d = 0 THEN Untracked
    ELSE LET sn == IF d < 0 THEN -n ELSE n
             sd == Abs(d)
             g  == GCD(Abs(sn), sd)
             rn == sn \div g
             rd == sd \div g
         IN  IF Abs(rn) > MaxMag \/ rd > MaxMag THEN Untracked
             ELSE [n |-> rn, d |-> rd]

Tracked(v) == v.d # 0

\* x == 0.0
IsZero(v) == v.d # 0 /\ v.n = 0

\* The sign bit of a tracked double.
Negative(v) == v.n < 0 \/ v = NegZero

\* -x
DNeg(v) == IF v = Zero THEN NegZero
           ELSE IF v = NegZero THEN Zero
           ELSE [n |-> -(v.n), d |-> v.d]

\* a + b; a zero sum is -0.0 only when both terms are negative (both -0.0)
DAdd(a, b) == IF Tracked(a) /\ Tracked(b)
              THEN (IF a = NegZero /\ b = NegZero THEN NegZero
                    ELSE Rat(a.n * Abs(b.d) + b.n * Abs(a.d), Abs(a.d) * Abs(b.d)))
              ELSE Untracked
\* a - b
DSub(a, b) == IF Tracked(a) /\ Tracked(b) THEN DAdd(a, DNeg(b)) ELSE Untracked
\* a * b; the sign of a zero product is the product of the signs
DMul(a, b) == IF Tracked(a) /\ Tracked(b)
              THEN (IF (IsZero(a) \/ IsZero(b))
                    THEN (IF Negative(a) # Negative(b) THEN NegZero ELSE Zero)
                    ELSE Rat(a.n * b.n, a.d * b.d))
              ELSE Untracked
\* a / b with b nonzero; the sign of a zero quotient likewise
DDiv(a, b) == IF Tracked(a) /\ Tracked(b)
              THEN (IF IsZero(b) THEN Untracked
                    ELSE IF IsZero(a)
                    THEN (IF Negative(a) # Negative(b) THEN NegZero ELSE Zero)
                    ELSE Rat(a.n * b.d, a.d * b.n))
              ELSE Untracked

\* ------------------------------------------------------- the entry buffer
EntrySize == 17

ChDot == 46
ChZero == 48
ChNine == 57
ChEquals == 61
ChPlus == 43
ChMinus == 45
ChStar == 42
ChSlash == 47

EntryIdx == 0 .. (EntrySize - 1)

\* memset(entry, 0, sizeof(entry))
Memset0 == [i \in EntryIdx |-> 0]

\* memset(...); entry[0] = c; entry[1] = '\0';
Fresh(c) == [Memset0 EXCEPT ![0] = c, ![1] = 0]

\* strlen(e); the scan stops at the end of the array in the model
RECURSIVE StrLenFrom(_, _)
StrLenFrom(e, i) ==
    IF i >= EntrySize THEN EntrySize
    ELSE IF e[i] = 0 THEN i
    ELSE StrLenFrom(e, i + 1)

strlen(e) == StrLenFrom(e, 0)

\* The C string held in e, as a sequence of characters.
Str(e) == [i \in 1 .. strlen(e) |-> e[i - 1]]

\* strchr(e, c) != NULL
strchr(e, c) == \E i \in 0 .. (strlen(e) - 1) : e[i] = c

\* strcmp(e, "0") == 0
IsStrZero(e) == e[0] = ChZero /\ e[1] = 0

IsDigitOrDot(k) == (k >= ChZero /\ k <= ChNine) \/ k = ChDot
IsOperator(k) == k = ChPlus \/ k = ChMinus \/ k = ChStar \/ k = ChSlash
IsEquals(k) == k = ChEquals

\* Fault-injection variant: the append is not limited to 16 characters.
StoreKeyNoLimit(e, k) ==
    LET len == strlen(e)
    IN  IF len < EntrySize - 1
        THEN [e EXCEPT ![len] = k, ![len + 1] = 0]
        ELSE [e EXCEPT ![EntrySize - 1] = k]

\* size_t len = strlen(entry);
\* if (len < sizeof(entry) - 1) { entry[len] = key; entry[len + 1] = '\0'; }
StoreKey(e, k) ==
    LET len == strlen(e)
    IN  IF len < EntrySize - 1
        THEN [e EXCEPT ![len] = k, ![len + 1] = 0]
        ELSE e

\* Fault-injection variant: the leading "0" is kept.
DropLeadingZeroNever(e, k) == e

\* if (strcmp(entry, "0") == 0 && key != '.') entry[0] = '\0';
DropLeadingZero(e, k) ==
    IF IsStrZero(e) /\ k # ChDot THEN [e EXCEPT ![0] = 0] ELSE e

\* Fault-injection variant: a second '.' is accepted.
ExtraDotNever(e, k) == FALSE

\* key == '.' && strchr(entry, '.') != NULL
ExtraDot(e, k) == k = ChDot /\ strchr(e, ChDot)

\* The digit branch of STATE_ENTER_FIRST and of STATE_ENTER_SECOND.
EnterKey(e, k) ==
    IF ExtraDot(e, k) THEN e
    ELSE StoreKey(DropLeadingZero(e, k), k)

\* ----------------------------------------------------------------- strtod
\* The index after the run of digits that starts at i.
RECURSIVE DigitsEnd(_, _)
DigitsEnd(e, i) ==
    IF i < EntrySize /\ e[i] >= ChZero /\ e[i] <= ChNine
    THEN DigitsEnd(e, i + 1) ELSE i

\* The index after the last digit of e[from .. to-1] that is not '0'.
RECURSIVE TrimZeros(_, _, _)
TrimZeros(e, from, to) ==
    IF to > from /\ e[to - 1] = ChZero THEN TrimZeros(e, from, to - 1) ELSE to

\* The number written by the digits e[i .. to-1] after acc, or -1 once it
\* leaves the tracked range.
RECURSIVE Accum(_, _, _, _)
Accum(e, i, to, acc) ==
    IF acc < 0 \/ acc > MaxMag THEN -1
    ELSE IF i >= to THEN acc
    ELSE Accum(e, i + 1, to, acc * 10 + (e[i] - ChZero))

RECURSIVE Pow10(_)
Pow10(k) ==
    IF k = 0 THEN 1
    ELSE LET p == Pow10(k - 1) IN IF p < 0 \/ p > MaxMag THEN -1 ELSE 10 * p

\* strtod(e, NULL) of digits, an optional '.', digits; no digit at all: 0.0
strtod(e) ==
    LET intEnd  == DigitsEnd(e, 0)
        hasDot  == intEnd < EntrySize /\ e[intEnd] = ChDot
        fracBeg == intEnd + 1
        fracEnd == IF hasDot THEN TrimZeros(e, fracBeg, DigitsEnd(e, fracBeg))
                   ELSE fracBeg
        ip      == Accum(e, 0, intEnd, 0)
        m       == IF hasDot THEN Accum(e, fracBeg, fracEnd, ip) ELSE ip
        sc      == IF hasDot THEN Pow10(fracEnd - fracBeg) ELSE 1
    IN  IF m < 0 \/ m > MaxMag \/ sc < 0 \/ sc > MaxMag THEN Untracked
        ELSE Rat(m, sc)

\* ------------------------------------------------- snprintf(buf, 17, "%.10g", x)
ChSpace == 32

\* A character the model does not follow, and a text it does not follow:
\* what an untracked double prints as.
UnknownText == << 0 >>
UnknownChar == UnknownText[1]
IsUnknown(t) == \E i \in 1 .. Len(t) : t[i] = UnknownChar

\* The characters of a line of the display, and the size of buf and temp.
LcdWidth == 16
SigDigits == 10

\* The decimal digits of the natural number n, as characters.
RECURSIVE DigitsOf(_)
DigitsOf(n) ==
    IF n < 10 THEN << ChZero + n >>
    ELSE DigitsOf(n \div 10) \o << ChZero + (n % 10) >>

\* The number of zeros between the decimal point and the first nonzero
\* decimal of r/d, 0 < r < d.
RECURSIVE LeadZeros(_, _)
LeadZeros(r, d) == IF 10 * r >= d THEN 0 ELSE 1 + LeadZeros(10 * r, d)

\* The first k decimals of r/d, 0 <= r < d, as characters.
RECURSIVE FracDigits(_, _, _)
FracDigits(r, d, k) ==
    IF k = 0 THEN << >>
    ELSE << ChZero + ((10 * r) \div d) >> \o FracDigits((10 * r) % d, d, k - 1)

\* What is left of r/d after its first k decimals, times d.
RECURSIVE FracRem(_, _, _)
FracRem(r, d, k) == IF k = 0 THEN r ELSE FracRem((10 * r) % d, d, k - 1)

\* The decimals ds plus one unit in the last place (the carry out is lost).
RECURSIVE IncDigits(_)
IncDigits(ds) ==
    IF ds = << >> THEN << >>
    ELSE LET last == ds[Len(ds)]
             front == SubSeq(ds, 1, Len(ds) - 1)
         IN  IF last = ChNine THEN IncDigits(front) \o << ChZero >>
             ELSE front \o << last + 1 >>

AllNines(ds) == \A i \in 1 .. Len(ds) : ds[i] = ChNine

\* %g removes the trailing zeros of the decimals, and the point with them.
RECURSIVE StripZeros(_)
StripZeros(ds) ==
    IF ds # << >> /\ ds[Len(ds)] = ChZero
    THEN StripZeros(SubSeq(ds, 1, Len(ds) - 1)) ELSE ds

Point(ds) == IF ds = << >> THEN << >> ELSE << ChDot >> \o ds

\* The text of ip.ds, rounded up by one unit in the last place when up.
Fixed(neg, ip, ds, up) ==
    LET ds2 == IF up THEN IncDigits(ds) ELSE ds
        ip2 == IF up /\ AllNines(ds) THEN ip + 1 ELSE ip
    IN  (IF neg THEN << ChMinus >> ELSE << >>)
            \o DigitsOf(ip2) \o Point(StripZeros(ds2))

\* The texts "%.10g" can give for the double v.  A tracked value lies
\* between 1e-4 and 1e4 in magnitude, where %g uses the fixed notation with
\* 10 significant digits; the digit that follows them decides the rounding,
\* and a tie is left open between the two neighbours.  An untracked value
\* prints as a text the model does not follow.
FormatG(v) ==
    IF ~Tracked(v) THEN {UnknownText}
    ELSE IF v = NegZero THEN {<< ChMinus, ChZero >>}
    ELSE IF v.n = 0 THEN {<< ChZero >>}
    ELSE LET a   == Abs(v.n)
             ip  == a \div v.d
             r0  == a % v.d
             x   == IF ip > 0 THEN Len(DigitsOf(ip)) - 1
                    ELSE -(LeadZeros(r0, v.d) + 1)
             k   == (SigDigits - 1) - x
             ds  == FracDigits(r0, v.d, k)
             rem == FracRem(r0, v.d, k)
         IN  IF 2 * rem < v.d THEN {Fixed(v.n < 0, ip, ds, FALSE)}
             ELSE IF 2 * rem > v.d THEN {Fixed(v.n < 0, ip, ds, TRUE)}
             ELSE {Fixed(v.n < 0, ip, ds, FALSE), Fixed(v.n < 0, ip, ds, TRUE)}

\* ------------------------------------------------------------- the display
\* The EduBase LCD as main.c uses it: two lines of 16 characters and a
\* cursor.  lcd.line[r + 1][c + 1] is the character shown at column c of
\* row r (UnknownChar where the model does not follow it).  lcd.wrote is
\* history: the text of the last LCD_Print to each row (empty after
\* LCD_Clear).
BlankLine == [i \in 1 .. LcdWidth |-> ChSpace]

\* LCD_Clear(): both lines blank, the cursor at home.
LCD_Clear(l) ==
    [line |-> << BlankLine, BlankLine >>, col |-> 0, row |-> 0,
     wrote |-> << << >>, << >> >>]

\* LCD_SetCursor(col, row)
LCD_SetCursor(l, c, r) == [l EXCEPT !.col = c, !.row = r]

\* LCD_Print(s): the characters of s replace what is shown from the cursor
\* on; the cursor moves behind them and the rest of the line stays.  After
\* a text the model does not follow, it follows neither the line from the
\* cursor on nor the cursor (which main.c sets anew before every print).
LCD_Print(l, s) ==
    IF IsUnknown(s)
    THEN [l EXCEPT !.line[l.row + 1] =
                       [i \in 1 .. LcdWidth |->
                           IF i > l.col THEN UnknownChar ELSE @[i]],
                   !.col = LcdWidth,
                   !.wrote[l.row + 1] = UnknownText]
    ELSE [l EXCEPT !.line[l.row + 1] =
                       [i \in 1 .. LcdWidth |->
                           IF i > l.col /\ i <= l.col + Len(s)
                           THEN s[i - l.col] ELSE @[i]],
                   !.col = l.col + Len(s),
                   !.wrote[l.row + 1] = s]

\* "Calc Ready", "Err: Div by 0  ", "Press any key  "
MsgReady == << 67, 97, 108, 99, 32, 82, 101, 97, 100, 121 >>
MsgDivBy0 == << 69, 114, 114, 58, 32, 68, 105, 118, 32, 98, 121, 32, 48, 32, 32 >>
MsgPressKey == << 80, 114, 101, 115, 115, 32, 97, 110, 121, 32, 107, 101, 121, 32, 32 >>

\* snprintf(buf, sizeof(buf), ...): at most 16 characters are stored.
Truncated(t) == IF Len(t) > EntrySize - 1 THEN SubSeq(t, 1, EntrySize - 1) ELSE t

\* if (len < sizeof(buf) - 1) { buf[len] = c; buf[len + 1] = '\0'; }
AppendChar(buf, c) ==
    IF IsUnknown(buf) THEN UnknownText
    ELSE IF Len(buf) < EntrySize - 1 THEN Append(buf, c) ELSE buf

\* if (strlen(buf) + strlen(temp) < sizeof(buf)) strcat(buf, temp);
AppendText(buf, temp) ==
    IF IsUnknown(buf) \/ IsUnknown(temp) THEN UnknownText
    ELSE IF Len(buf) + Len(temp) < EntrySize THEN buf \o temp ELSE buf

\* The buf of update_expression_display: t1 and t2 are the "%.10g" texts of
\* op1 and op2.
ExpressionText(t1, op, t2, show_second, show_equal) ==
    LET b1 == Truncated(t1)
        b2 == IF op # 0 THEN AppendChar(b1, op) ELSE b1
        b3 == IF show_second THEN AppendText(b2, Truncated(t2)) ELSE b2
    IN  IF show_equal THEN AppendChar(b3, ChEquals) ELSE b3

\* update_expression_display: the top line is blanked, then buf is printed.
update_expression_display(l, t1, op, t2, show_second, show_equal) ==
    LCD_Print(LCD_SetCursor(LCD_Print(LCD_SetCursor(l, 0, 0), BlankLine), 0, 0),
              ExpressionText(t1, op, t2, show_second, show_equal))

\* update_entry_display: the bottom line is blanked, then entry is printed.
update_entry_display(l, e) ==
    LCD_Print(LCD_SetCursor(LCD_Print(LCD_SetCursor(l, 0, 1), BlankLine), 0, 1),
              Str(e))

\* LCD_SetCursor(0, 1); LCD_Print("                "); LCD_SetCursor(0, 1);
\* LCD_PrintDoubleCompact(result);
ShowResultLine(l, t) ==
    LCD_Print(LCD_SetCursor(LCD_Print(LCD_SetCursor(l, 0, 1), BlankLine), 0, 1),
              Truncated(t))

\* LCD_Clear(); LCD_SetCursor(0, 1); LCD_PrintDoubleCompact(result);
ShowResultOnly(l, t) == LCD_Print(LCD_SetCursor(LCD_Clear(l), 0, 1), Truncated(t))

\* The division-by-zero branch: the two messages are printed over the lines.
ShowDivBy0(l) ==
    LCD_Print(LCD_SetCursor(LCD_Print(LCD_SetCursor(l, 0, 0), MsgDivBy0), 0, 1),
              MsgPressKey)

\* LCD_Clear(); LCD_SetCursor(0, 0); LCD_Print("Calc Ready");
ShowReady(l) == LCD_Print(LCD_SetCursor(LCD_Clear(l), 0, 0), MsgReady)

\* The display after LCD_Init().
LCD_Init == LCD_Clear(<< >>)

\* ------------------------------------------------- start_new_calculation
\* memset(entry, 0, entry_size); entry[0] = '0'; entry[1] = '\0';
start_new_calculation == Fresh(ChZero)

\* LCD_Clear(); "Calc Ready" on the top line and "0" on the bottom line.
start_new_calculation_display(l) ==
    LCD_Print(LCD_SetCursor(ShowReady(l), 0, 1), << ChZero >>)

\* ---------------------------------------------------------------- Init
\* main() up to its first Keypad_WaitForChar(): no key held, the control
\* thread about to poll in the press-wait loop.
KeypadInit ==
    /\ pressed = {}
    /\ pc = "press"
    /\ first = NoKey
    /\ second = NoKey
    /\ ret = NoKey
    /\ key = NoKey
    /\ stillPressed = NoKey
    /\ retChar = 0
    /\ live = {}
    /\ repeat = FALSE
    /\ nscans = 0
    /\ waited = 0

CalcInit ==
    /\ state = "STATE_ENTER_FIRST"
    /\ op1 = Zero
    /\ op2 = Zero
    /\ result = Zero
    /\ current_op = 0
    /\ entry = start_new_calculation
    /\ lcd = start_new_calculation_display(LCD_Init)
    /\ nkeys = 0
    /\ npress = 0
    /\ typed = << >>
    /\ prev = Zero

Init == KeypadInit /\ CalcInit

\* --------------------------------------------------------- the environment
\* A key of the matrix is pushed down (at most max times in a run).
EnvPress(k, max) ==
    /\ k \notin pressed
    /\ Cardinality(pressed) < MaxHeld
    /\ npress < max
    /\ pressed' = pressed \cup {k}
    /\ npress' = npress + 1
    /\ UNCHANGED << pc, first, second, ret, key, stillPressed, retChar,
                    live, repeat, nscans, waited >>
    /\ UNCHANGED << calcvars, lcd, nkeys, typed, prev >>

\* A held key is let go: its physical press is over.
EnvRelease(k) ==
    /\ k \in pressed
    /\ pressed' = pressed \ {k}
    /\ live' = live \ {k}
    /\ UNCHANGED << pc, first, second, ret, key, stillPressed, retChar,
                    repeat, nscans, waited >>
    /\ UNCHANGED << calcvars, lcd, hist >>

\* ------------------------------------------------- the keypad driver steps
\* Keypad_WaitForKeyIndex, press-wait loop: Keypad_GetKeyIndex's first scan.
\* No key: it returns -1 and the loop polls again.  A key: the 20 ms
\* debounce delay begins.
PressWait_FirstScan ==
    /\ pc = "press"
    /\ PressLoopContinues(key)
    /\ LET f == Keypad_ScanOnce(pressed)
       IN  /\ first' = f
           /\ nscans' = 1
           /\ IF FirstScanEmpty(f)
              THEN /\ ret' = NoKey
                   /\ key' = NoKey
                   /\ second' = NoKey
                   /\ waited' = 0
                   /\ pc' = "press"
              ELSE /\ pc' = "press_db"
                   /\ waited' = DebounceUs
                   /\ UNCHANGED << ret, key, second >>
    /\ UNCHANGED << pressed, stillPressed, retChar, live, repeat >>
    /\ UNCHANGED << calcvars, lcd, hist >>

\* Press-wait loop: the second scan, after the debounce delay.  Agreement
\* confirms the key and the release-wait loop begins with stillPressed = key.
PressWait_SecondScan ==
    /\ pc = "press_db"
    /\ LET s == Keypad_ScanOnce(pressed)
           r == Debounce(first, s)
       IN  /\ second' = s
           /\ nscans' = nscans + 1
           /\ ret' = r
           /\ key' = r
           /\ IF PressLoopContinues(r)
              THEN /\ pc' = "press"
                   /\ UNCHANGED << stillPressed, live, repeat >>
              ELSE /\ pc' = "release"
                   /\ stillPressed' = r
                   /\ repeat' = (r \in live)
                   /\ live' = live \cup {r}
    /\ UNCHANGED << pressed, first, retChar, waited >>
    /\ UNCHANGED << calcvars, lcd, hist >>

\* Release-wait loop: Keypad_GetKeyIndex's first scan.  No key: stillPressed
\* is -1, the loop ends, Keypad_WaitForKeyIndex returns key and
\* Keypad_WaitForChar returns Keypad_Map[key].
ReleaseWait_FirstScan ==
    /\ pc = "release"
    /\ LET f == Keypad_ScanOnce(pressed)
       IN  /\ first' = f
           /\ nscans' = 1
           /\ IF FirstScanEmpty(f)
              THEN /\ ret' = NoKey
                   /\ stillPressed' = NoKey
                   /\ second' = NoKey
                   /\ waited' = 0
                   /\ IF ReleaseLoopContinues(NoKey)
                      THEN pc' = "release" /\ UNCHANGED retChar
                      ELSE pc' = "returned" /\ retChar' = Keypad_Map[key]
              ELSE /\ pc' = "release_db"
                   /\ waited' = DebounceUs
                   /\ UNCHANGED << ret, stillPressed, second, retChar >>
    /\ UNCHANGED << pressed, key, live, repeat >>
    /\ UNCHANGED << calcvars, lcd, hist >>

\* Release-wait loop: the second scan.  The loop goes on while the debounced
\* read reports a key, and ends as above when it reports none.
ReleaseWait_SecondScan ==
    /\ pc = "release_db"
    /\ LET s == Keypad_ScanOnce(pressed)
           r == Debounce(first, s)
       IN  /\ second' = s
           /\ nscans' = nscans + 1
           /\ ret' = r
           /\ stillPressed' = r
           /\ key' = KeptKey(key, r)
           /\ IF ReleaseLoopContinues(r)
              THEN pc' = "release" /\ UNCHANGED retChar
              ELSE pc' = "returned" /\ retChar' = Keypad_Map[key]
    /\ UNCHANGED << pressed, first, live, repeat, waited >>
    /\ UNCHANGED << calcvars, lcd, hist >>

\* --------------------------------------------------------- main: while (1)
\* char key = Keypad_WaitForChar() has returned retChar; one branch of the
\* loop body runs and the loop calls Keypad_WaitForChar() again.
Dispatching == pc = "returned"

\* The next call of Keypad_WaitForChar: int key = -1, and the locals of the
\* call that returned are gone.
LoopBack ==
    /\ pc' = "press"
    /\ key' = NoKey
    /\ first' = NoKey
    /\ second' = NoKey
    /\ ret' = NoKey
    /\ stillPressed' = NoKey
    /\ nscans' = 0
    /\ waited' = 0
    /\ UNCHANGED << pressed, retChar, live, repeat, hist >>

\* Fault-injection variant: a new calculation always starts from "0".
SeedZero(k) == Fresh(ChZero)

\* memset(entry, 0, sizeof(entry)); entry[0] = key; entry[1] = '\0';
Seed(k) == Fresh(k)

\* Fault-injection variant: the operator branch leaves the typed operand in
\* the buffer.
ResetEntryKeep(e) == e

\* memset(entry, 0, sizeof(entry)); entry[0] = '0'; entry[1] = '\0';
ResetEntry(e) == Fresh(ChZero)

\* Fault-injection variant: the division is not guarded.
DivisionByZeroNever(op, b) == FALSE

\* current_op == '/' and op2 == 0.0: the branch that prints the error and
\* leaves result alone
DivisionByZero(op, b) == op = ChSlash /\ IsZero(b)

\* Fault-injection variant: the operands are taken in the wrong order.
ComputeSwapped(op, a, b, old) ==
    IF op = ChPlus THEN DAdd(b, a)
    ELSE IF op = ChMinus THEN DSub(b, a)
    ELSE IF op = ChStar THEN DMul(b, a)
    ELSE IF op = ChSlash THEN (IF DivisionByZero(op, b) THEN old ELSE DDiv(b, a))
    ELSE old

\* if (current_op == '+') ... else if ... : the value result has afterwards
Compute(op, a, b, old) ==
    IF op = ChPlus THEN DAdd(a, b)
    ELSE IF op = ChMinus THEN DSub(a, b)
    ELSE IF op = ChStar THEN DMul(a, b)
    ELSE IF op = ChSlash THEN (IF DivisionByZero(op, b) THEN old ELSE DDiv(a, b))
    ELSE old

\* Fault-injection variant: the chained operation keeps the old op1.
ChainOperandKeep(res, old) == old

\* op1 = result;
ChainOperand(res, old) == res

\* Fault-injection variant: '=' on a result repeats the last operation.
EqualsAgainRepeats(op, a, b, old) == Compute(op, old, b, old)

\* else if (key == '=') { /* do nothing for now */ }: result afterwards
EqualsAgain(op, a, b, old) == old

\* Fault-injection variant: the operator of the first operand is not stored.
StoreOperatorNone(k) == 0

\* current_op = key; in the operator branch of STATE_ENTER_FIRST
StoreOperator(k) == k

\* Fault-injection variant: the division-by-zero path leaves the state alone.
StateAfterEqualsStuck(op, b, s) ==
    IF DivisionByZero(op, b) THEN s ELSE "STATE_SHOW_RESULT"

\* state = STATE_SHOW_RESULT; on the division-by-zero path before the
\* continue, and after the result line otherwise
StateAfterEquals(op, b, s) == "STATE_SHOW_RESULT"

\* Fault-injection variant: the first operator pressed is kept.
ReplaceOperatorKeepFirst(old, k) == old

\* current_op = key;
ReplaceOperator(old, k) == k

Main_First_Digit ==
    /\ Dispatching
    /\ state = "STATE_ENTER_FIRST"
    /\ IsDigitOrDot(retChar)
    /\ entry' = EnterKey(entry, retChar)
    /\ lcd' = update_entry_display(lcd, entry')
    /\ UNCHANGED << state, op1, op2, result, current_op >>
    /\ LoopBack

Main_First_Operator ==
    /\ Dispatching
    /\ state = "STATE_ENTER_FIRST"
    /\ ~IsDigitOrDot(retChar) /\ IsOperator(retChar)
    /\ op1' = strtod(entry)
    /\ current_op' = StoreOperator(retChar)
    /\ state' = "STATE_ENTER_SECOND"
    /\ entry' = ResetEntry(entry)
    /\ \E t1 \in FormatG(op1') :
          lcd' = update_entry_display(
                     update_expression_display(lcd, t1, current_op', << >>, FALSE, FALSE),
                     entry')
    /\ UNCHANGED << op2, result >>
    /\ LoopBack

Main_First_Equals ==
    /\ Dispatching
    /\ state = "STATE_ENTER_FIRST"
    /\ ~IsDigitOrDot(retChar) /\ ~IsOperator(retChar) /\ IsEquals(retChar)
    /\ op1' = strtod(entry)
    /\ result' = strtod(entry)
    /\ state' = "STATE_SHOW_RESULT"
    /\ current_op' = 0
    /\ \E t \in FormatG(result') : lcd' = ShowResultOnly(lcd, t)
    /\ UNCHANGED << entry, op2 >>
    /\ LoopBack

Main_Second_Digit ==
    /\ Dispatching
    /\ state = "STATE_ENTER_SECOND"
    /\ IsDigitOrDot(retChar)
    /\ entry' = EnterKey(entry, retChar)
    /\ lcd' = update_entry_display(lcd, entry')
    /\ UNCHANGED << state, op1, op2, result, current_op >>
    /\ LoopBack

Main_Second_Equals ==
    /\ Dispatching
    /\ state = "STATE_ENTER_SECOND"
    /\ ~IsDigitOrDot(retChar) /\ IsEquals(retChar)
    /\ op2' = strtod(entry)
    /\ result' = Compute(current_op, op1, strtod(entry), result)
    /\ state' = StateAfterEquals(current_op, op2', state)
    /\ \E t1 \in FormatG(op1) : \E t2 \in FormatG(op2') :
          LET top == update_expression_display(lcd, t1, current_op, t2, TRUE, TRUE)
          IN  IF DivisionByZero(current_op, op2')
              THEN lcd' = ShowDivBy0(top)
              ELSE \E t \in FormatG(result') : lcd' = ShowResultLine(top, t)
    /\ UNCHANGED << entry, op1, current_op >>
    /\ LoopBack

Main_Second_Operator ==
    /\ Dispatching
    /\ state = "STATE_ENTER_SECOND"
    /\ ~IsDigitOrDot(retChar) /\ ~IsEquals(retChar) /\ IsOperator(retChar)
    /\ current_op' = ReplaceOperator(current_op, retChar)
    /\ \E t1 \in FormatG(op1) :
          lcd' = update_expression_display(lcd, t1, retChar, << >>, FALSE, FALSE)
    /\ UNCHANGED << state, entry, op1, op2, result >>
    /\ LoopBack

Main_Result_Digit ==
    /\ Dispatching
    /\ state = "STATE_SHOW_RESULT"
    /\ IsDigitOrDot(retChar)
    /\ state' = "STATE_ENTER_FIRST"
    /\ op1' = Zero
    /\ op2' = Zero
    /\ current_op' = 0
    /\ entry' = Seed(retChar)
    /\ lcd' = update_entry_display(ShowReady(lcd), entry')
    /\ UNCHANGED result
    /\ LoopBack

Main_Result_Operator ==
    /\ Dispatching
    /\ state = "STATE_SHOW_RESULT"
    /\ ~IsDigitOrDot(retChar) /\ IsOperator(retChar)
    /\ op1' = ChainOperand(result, op1)
    /\ op2' = Zero
    /\ current_op' = retChar
    /\ state' = "STATE_ENTER_SECOND"
    /\ entry' = ResetEntry(entry)
    /\ \E t1 \in FormatG(op1') :
          lcd' = update_entry_display(
                     update_expression_display(lcd, t1, retChar, << >>, FALSE, FALSE),
                     entry')
    /\ UNCHANGED result
    /\ LoopBack

Main_Result_Equals ==
    /\ Dispatching
    /\ state = "STATE_SHOW_RESULT"
    /\ ~IsDigitOrDot(retChar) /\ ~IsOperator(retChar) /\ IsEquals(retChar)
    /\ result' = EqualsAgain(current_op, op1, op2, result)
    /\ UNCHANGED << state, entry, op1, op2, current_op, lcd >>
    /\ LoopBack

MainStep ==
    \/ Main_First_Digit
    \/ Main_First_Operator
    \/ Main_First_Equals
    \/ Main_Second_Digit
    \/ Main_Second_Equals
    \/ Main_Second_Operator
    \/ Main_Result_Digit
    \/ Main_Result_Operator
    \/ Main_Result_Equals

DriverStep ==
    \/ PressWait_FirstScan
    \/ PressWait_SecondScan
    \/ ReleaseWait_FirstScan
    \/ ReleaseWait_SecondScan

\* ------------------------------------------------------- the whole program
\* The keys a run of Spec has under the fingers: K0 '7', K7 '.', K11 '=',
\* K12 '/'.
PhysKeys == {0, 7, 11, 12}

Next ==
    \/ \E k \in PhysKeys : EnvPress(k, MaxPresses)
    \/ \E k \in PhysKeys : EnvRelease(k)
    \/ DriverStep
    \/ MainStep

Spec == Init /\ [][Next]_vars

\* ---------------------------------------------------- the driver on its own
\* A caller that calls Keypad_WaitForChar() over and over and does nothing
\* with the character, with all sixteen keys under the fingers.
Caller_CallsAgain ==
    /\ Dispatching
    /\ LoopBack
    /\ UNCHANGED << calcvars, lcd >>

NextKeypad ==
    \/ \E k \in KeyIndices : EnvPress(k, MaxPressesAll)
    \/ \E k \in KeyIndices : EnvRelease(k)
    \/ DriverStep
    \/ Caller_CallsAgain

SpecKeypad == Init /\ [][NextKeypad]_vars

\* ------------------------------------------------- Keypad_ScanOnce on its own
\* One call of Keypad_ScanOnce() on each of the 2^16 states of the matrix;
\* the value it returns is left in first.
InitScan ==
    /\ pressed \in SUBSET KeyIndices
    /\ pc = "scan"
    /\ first = NoKey
    /\ second = NoKey
    /\ ret = NoKey
    /\ key = NoKey
    /\ stillPressed = NoKey
    /\ retChar = 0
    /\ live = {}
    /\ repeat = FALSE
    /\ nscans = 0
    /\ waited = 0
    /\ CalcInit

ScanOnce_Call ==
    /\ pc = "scan"
    /\ first' = Keypad_ScanOnce(pressed)
    /\ pc' = "scanned"
    /\ UNCHANGED << pressed, second, ret, key, stillPressed, retChar,
                    live, repeat, nscans, waited >>
    /\ UNCHANGED << calcvars, lcd, hist >>

SpecScan == InitScan /\ [][ScanOnce_Call]_vars

\* ------------------------------------------------ the calculator on its own
\* Keypad_WaitForChar() as main sees it: it returns the character of one of
\* the sixteen keys.  At most MaxKeys keys arrive.
WaitForChar_Returns(i) ==
    /\ pc = "press"
    /\ nkeys < MaxKeys
    /\ nkeys' = nkeys + 1
    /\ pc' = "returned"
    /\ key' = i
    /\ retChar' = Keypad_Map[i]
    /\ UNCHANGED << pressed, first, second, ret, stillPressed, live, repeat,
                    nscans, waited,
                    npress, typed, prev >>
    /\ UNCHANGED << calcvars, lcd >>

NextCalc ==
    \/ \E i \in KeyIndices : WaitForChar_Returns(i)
    \/ MainStep

SpecCalc == Init /\ [][NextCalc]_vars

\* The same with long entries: the keys are K0 '7', K7 '.', K11 '=' and
\* K15 '+'; any number of '7' and '.' arrive, and at most MaxOpKeys of the
\* other two.
EntryKeys == {0, 7, 11, 15}

WaitForChar_ReturnsEntryKey(i) ==
    /\ pc = "press"
    /\ IsDigitOrDot(Keypad_Map[i]) \/ nkeys < MaxOpKeys
    /\ nkeys' = IF IsDigitOrDot(Keypad_Map[i]) THEN nkeys ELSE nkeys + 1
    /\ pc' = "returned"
    /\ key' = i
    /\ retChar' = Keypad_Map[i]
    /\ UNCHANGED << pressed, first, second, ret, stillPressed, live, repeat,
                    nscans, waited,
                    npress, typed, prev >>
    /\ UNCHANGED << calcvars, lcd >>

NextEntry ==
    \/ \E i \in EntryKeys : WaitForChar_ReturnsEntryKey(i)
    \/ MainStep

SpecEntry == Init /\ [][NextEntry]_vars

\* -------------------------------------------- one calculation, key by key
\* Keypad_WaitForChar() hands over the keys of one calculation: an operand
\* of at most MaxLit digits with at most one '.', an operator, a second
\* such operand and '='.  The keys are K0 '7', K3 '0', K10 '3', K7 '.',
\* K11 '=' and the four operators; typed records them.
TypedKeys == {0, 3, 7, 10, 11, 12, 13, 14, 15}

\* s can still grow into an operand: digits, with at most one '.'.
IsLitPrefix(s) ==
    /\ Len(s) <= MaxLit
    /\ \A i \in 1 .. Len(s) : IsDigitOrDot(s[i])
    /\ Cardinality({i \in 1 .. Len(s) : s[i] = ChDot}) <= 1

\* t is the beginning of: operand, operator, operand, '='.
Admissible(t) ==
    \/ IsLitPrefix(t)
    \/ \E k \in 2 .. Len(t) :
          /\ IsOperator(t[k])
          /\ IsLitPrefix(SubSeq(t, 1, k - 1))
          /\ \/ IsLitPrefix(SubSeq(t, k + 1, Len(t)))
             \/ /\ Len(t) >= k + 2
                /\ t[Len(t)] = ChEquals
                /\ IsLitPrefix(SubSeq(t, k + 1, Len(t) - 1))

WaitForChar_ReturnsTyped(i) ==
    /\ pc = "press"
    /\ Admissible(Append(typed, Keypad_Map[i]))
    /\ typed' = Append(typed, Keypad_Map[i])
    /\ pc' = "returned"
    /\ key' = i
    /\ retChar' = Keypad_Map[i]
    /\ UNCHANGED << pressed, first, second, ret, stillPressed, live, repeat,
                    nscans, waited,
                    npress, nkeys, prev >>
    /\ UNCHANGED << calcvars, lcd >>

\* The branches of the loop body that the keys of one calculation reach.
CalculationStep ==
    \/ Main_First_Digit
    \/ Main_First_Operator
    \/ Main_Second_Digit
    \/ Main_Second_Equals

NextTyped ==
    \/ \E i \in TypedKeys : WaitForChar_ReturnsTyped(i)
    \/ CalculationStep

SpecTyped == Init /\ [][NextTyped]_vars

\* ------------------------------------------------------ chained operations
\* Keypad_WaitForChar() hands over at most MaxChainKeys keys among K10 '3',
\* K7 '.', K11 '=' and the four operators.  typed records the keys of the
\* present chained operation, from the operator handed over in
\* STATE_SHOW_RESULT on, and prev the result it started from; a digit or '.'
\* handed over in STATE_SHOW_RESULT ends the record.
ChainKeys == {7, 10, 11, 12, 13, 14, 15}

WaitForChar_ReturnsChained(i) ==
    /\ pc = "press"
    /\ nkeys < MaxChainKeys
    /\ nkeys' = nkeys + 1
    /\ pc' = "returned"
    /\ key' = i
    /\ retChar' = Keypad_Map[i]
    /\ IF state = "STATE_SHOW_RESULT"
       THEN IF IsOperator(Keypad_Map[i])
            THEN typed' = << Keypad_Map[i] >> /\ prev' = result
            ELSE IF IsDigitOrDot(Keypad_Map[i])
            THEN typed' = << >> /\ prev' = Zero
            ELSE UNCHANGED << typed, prev >>
       ELSE /\ typed' = IF typed = << >> THEN typed ELSE Append(typed, Keypad_Map[i])
            /\ UNCHANGED prev
    /\ UNCHANGED << pressed, first, second, ret, stillPressed, live, repeat,
                    nscans, waited,
                    npress >>
    /\ UNCHANGED << calcvars, lcd >>

NextChain ==
    \/ \E i \in ChainKeys : WaitForChar_ReturnsChained(i)
    \/ MainStep

SpecChain == Init /\ [][NextChain]_vars

\* ======================================================== the claims
Min(S) == CHOOSE x \in S : \A y \in S : x <= y

InReleaseWait == pc \in {"release", "release_db"}
InPressWait == pc \in {"press", "press_db"}

\* ------------------------------------------------------------------ C1
\* C1: no auto-repeat.  A key that Keypad_WaitForKeyIndex has returned is
\* not returned a second time while that key stays physically held,
\* whatever other keys are pressed or released meanwhile: no call returns
\* with a key whose present physical press an earlier call had already
\* confirmed and reported.
C1_NoAutoRepeat == ~(pc = "returned" /\ repeat)

\* ------------------------------------------------------------------ C2
\* C2: Keypad_GetKeyIndex returns position p if and only if its first scan
\* and its second scan both report p; it returns -1 when the first scan
\* reports no key (there is then no second scan) or when the second scan
\* reports anything else than the first.  Stated of the last completed call.
C2_DebounceAgreement ==
    pc \in {"press", "release", "returned"} =>
        /\ ret \in KeyIndices \cup {NoKey}
        /\ \A p \in KeyIndices : (ret = p) <=> (first = p /\ second = p)
        /\ (first = NoKey \/ second # first) => ret = NoKey

\* A call whose two scans reported two different keys returned -1.
C2_Witness ==
    /\ pc = "press"
    /\ first \in KeyIndices
    /\ second \in KeyIndices
    /\ second # first
    /\ ret = NoKey

\* ------------------------------------------------------------------ C3
ActiveCols(p) ==
    {c \in 0 .. (NumCols - 1) : \E r \in 0 .. (NumRows - 1) : (c * 4 + r) \in p}

ActiveRows(p, c) == {r \in 0 .. (NumRows - 1) : (c * 4 + r) \in p}

\* C3: for every combination of pressed keys Keypad_ScanOnce returns
\* col*4+row, col the lowest column with an active row and row the lowest
\* active row of that column; it returns -1 exactly when no key is pressed.
C3_ScanLowest ==
    pc = "scanned" =>
        /\ (first = NoKey) <=> (pressed = {})
        /\ pressed # {} =>
              LET col == Min(ActiveCols(pressed))
                  row == Min(ActiveRows(pressed, col))
              IN  first = col * 4 + row

\* Keys held in two columns, two of them in the lower column: K6 is read.
C3_Witness ==
    /\ pc = "scanned"
    /\ {6, 7, 9, 12} \subseteq pressed
    /\ pressed \cap (0 .. 5) = {}
    /\ first = 6

\* ------------------------------------------------------------------ C4
\* C4: a stuck key.  Once a press is confirmed, a debounced read that reports
\* a key keeps Keypad_WaitForKeyIndex in its release wait: the call leaves
\* the release wait only in a step whose debounced read reports no key, and
\* the press wait only with a confirmed key; and the calculator state changes
\* only in the dispatch that follows a return.  Neither loop has another
\* exit.
C4_StuckKeyBlocks ==
    [][ /\ (InReleaseWait /\ ~InReleaseWait') =>
              (pc' = "returned" /\ ret' = NoKey /\ stillPressed' = NoKey)
        /\ (InReleaseWait /\ ret' # NoKey) => InReleaseWait'
        /\ (InPressWait /\ ~InPressWait') =>
              (pc' = "release" /\ key' \in KeyIndices /\ ret' = key')
        /\ (pc # "returned") => UNCHANGED calcvars
      ]_vars

\* In the release wait, a debounced read has reported a key (another one than
\* the confirmed key) and the loop polls on.
C4_Witness ==
    /\ pc = "release"
    /\ key \in KeyIndices
    /\ ret \in KeyIndices
    /\ ret # key
    /\ stillPressed = ret

\* ------------------------------------------------------------------ C5
\* The layout of the keypad, row by row.
Layout ==
    << << 55, 56, 57, 47 >>,     \* 7 8 9 /
       << 52, 53, 54, 42 >>,     \* 4 5 6 *
       << 49, 50, 51, 45 >>,     \* 1 2 3 -
       << 48, 46, 61, 43 >> >>   \* 0 . = +

\* C5: Keypad_Map is defined on all of 0..15 and Keypad_Map[c*4+r] is the
\* symbol at row r, column c of the layout; the 16 symbols are distinct and
\* none is 0, so the character Keypad_WaitForChar returns is never 0 (and is
\* the layout's symbol for the key returned).
C5_DecoderLayout ==
    /\ DOMAIN Keypad_Map = KeyIndices
    /\ \A c \in 0 .. (NumCols - 1) : \A r \in 0 .. (NumRows - 1) :
          Keypad_Map[c * 4 + r] = Layout[r + 1][c + 1]
    /\ Cardinality({Keypad_Map[i] : i \in KeyIndices}) = 16
    /\ \A i \in KeyIndices : Keypad_Map[i] # 0
    /\ pc = "returned" =>
          /\ retChar # 0
          /\ retChar = Layout[(key % 4) + 1][(key \div 4) + 1]

\* Keypad_WaitForChar has returned '.' for K7 (column 1, row 3).
C5_Witness ==
    /\ pc = "returned"
    /\ key = 7
    /\ retChar = ChDot

\* ------------------------------------------------------------------ C6
DotCount(e) == Cardinality({i \in 0 .. (strlen(e) - 1) : e[i] = ChDot})

Entering == state \in {"STATE_ENTER_FIRST", "STATE_ENTER_SECOND"}

\* C6: in every reachable state the entry buffer holds at most one '.'.
C6_AtMostOneDot == DotCount(entry) <= 1

\* The last key dispatched was '.', in an entering state, with room left in
\* the buffer, and the buffer does not end in '.': the key was ignored
\* because the buffer already held its one '.'.
C6_Witness ==
    /\ pc = "press"
    /\ Entering
    /\ retChar = ChDot
    /\ strlen(entry) < EntrySize - 1
    /\ strlen(entry) >= 3
    /\ entry[strlen(entry) - 1] # ChDot
    /\ DotCount(entry) = 1

\* ------------------------------------------------------------------ C7
\* C7, as claimed: the entry buffer never holds more than 16 characters, and
\* a digit or '.' dispatched when it holds 16 characters leaves the buffer
\* and the calculator state as they are.
C7_Original ==
    /\ [](strlen(entry) <= EntrySize - 1)
    /\ [][ (pc = "returned" /\ strlen(entry) = EntrySize - 1
                            /\ IsDigitOrDot(retChar))
           => (entry' = entry /\ state' = state) ]_vars

\* C7, amended: the entry buffer never holds more than 16 characters, and a
\* digit or '.' dispatched in STATE_ENTER_FIRST or STATE_ENTER_SECOND when it
\* holds 16 characters leaves the buffer and the calculator state as they
\* are.  (In STATE_SHOW_RESULT the key starts a new calculation.)
C7_CapInEnteringStates ==
    /\ [](strlen(entry) <= EntrySize - 1)
    /\ [][ (pc = "returned" /\ Entering /\ strlen(entry) = EntrySize - 1
                            /\ IsDigitOrDot(retChar))
           => (entry' = entry /\ state' = state) ]_vars

\* The last key dispatched was '.', the buffer holds 16 characters and none
\* of them is '.': the key was dropped at the cap.
C7_Witness ==
    /\ pc = "press"
    /\ state = "STATE_ENTER_SECOND"
    /\ retChar = ChDot
    /\ strlen(entry) = EntrySize - 1
    /\ DotCount(entry) = 0

\* ------------------------------------------------------------------ C8
\* C8: whenever the control loop waits for a key the entry buffer is not
\* empty; the buffer is exactly "0" at startup, after an operator dispatched
\* in STATE_ENTER_FIRST and after an operator dispatched in
\* STATE_SHOW_RESULT.
C8_NeverEmptyFreshZero ==
    /\ []((pc \in {"press", "returned"}) => strlen(entry) >= 1)
    /\ []((nkeys = 0 /\ pc = "press") => Str(entry) = << ChZero >>)
    /\ [][ (pc = "returned" /\ IsOperator(retChar)
               /\ state \in {"STATE_ENTER_FIRST", "STATE_SHOW_RESULT"})
           => Str(entry') = << ChZero >> ]_vars

\* An operand was typed, an operator was dispatched, and the buffer is "0".
C8_Witness ==
    /\ pc = "press"
    /\ state = "STATE_ENTER_SECOND"
    /\ IsOperator(retChar)
    /\ op1 = [n |-> 7, d |-> 1]
    /\ Str(entry) = << ChZero >>

\* ------------------------------------------------------------------ C9
\* C9, as claimed: '.' dispatched in STATE_SHOW_RESULT starts a new
\* calculation in STATE_ENTER_FIRST with the buffer "0"; a digit d does so
\* with the buffer d.
C9_Original ==
    [][ (pc = "returned" /\ state = "STATE_SHOW_RESULT" /\ IsDigitOrDot(retChar))
        => /\ state' = "STATE_ENTER_FIRST"
           /\ Str(entry') = << IF retChar = ChDot THEN ChZero ELSE retChar >>
      ]_vars

\* C9, amended: '.' dispatched in STATE_SHOW_RESULT starts a new calculation
\* in STATE_ENTER_FIRST with the buffer ".", the key itself (neither "0" nor
\* "0."); a digit d does so with the buffer d.
C9_SeededWithKey ==
    [][ (pc = "returned" /\ state = "STATE_SHOW_RESULT" /\ IsDigitOrDot(retChar))
        => /\ state' = "STATE_ENTER_FIRST"
           /\ Str(entry') = << retChar >>
      ]_vars

\* '.' has started a new calculation: the buffer is ".".
C9_Witness ==
    /\ pc = "press"
    /\ state = "STATE_ENTER_FIRST"
    /\ retChar = ChDot
    /\ Str(entry) = << ChDot >>

\* ------------------------------------------------------------------ C10
\* C10: in STATE_ENTER_FIRST and STATE_ENTER_SECOND, with the buffer exactly
\* "0", a digit d makes the buffer d and '.' makes it "0."; no reachable
\* buffer starts with '0' followed by a digit.
C10_LeadingZero ==
    /\ [][ (pc = "returned" /\ Entering /\ Str(entry) = << ChZero >>
               /\ IsDigitOrDot(retChar))
           => Str(entry') = (IF retChar = ChDot THEN << ChZero, ChDot >>
                             ELSE << retChar >>) ]_vars
    /\ [](~(/\ strlen(entry) >= 2
            /\ entry[0] = ChZero
            /\ entry[1] >= ChZero /\ entry[1] <= ChNine))

\* In STATE_ENTER_SECOND, whose buffer starts as "0", the digit '5' was
\* dispatched and the buffer is "5", not "05".
C10_Witness ==
    /\ pc = "press"
    /\ state = "STATE_ENTER_SECOND"
    /\ retChar = 53
    /\ Str(entry) = << 53 >>

\* ------------------------------------------------------------------ C11
\* A decimal literal: digits with at most one '.', and at least one digit.
IsLiteral(s) ==
    /\ IsLitPrefix(s)
    /\ \E i \in 1 .. Len(s) : s[i] # ChDot

\* The digits of the literal s read as one natural number.
RECURSIVE NumOf(_)
NumOf(s) ==
    IF s = << >> THEN 0
    ELSE LET h == NumOf(SubSeq(s, 1, Len(s) - 1))
             c == s[Len(s)]
         IN  IF c = ChDot THEN h ELSE 10 * h + (c - ChZero)

\* 10 to the number of digits behind the '.' of s.
RECURSIVE DenOf(_)
DenOf(s) ==
    IF s = << >> \/ s[Len(s)] = ChDot THEN 1
    ELSE IF \E i \in 1 .. Len(s) : s[i] = ChDot
    THEN 10 * DenOf(SubSeq(s, 1, Len(s) - 1))
    ELSE 1

\* value(s) = NumOf(s) / DenOf(s), a fixed-point decimal the model follows.
InRange(s) == NumOf(s) <= MaxMag /\ DenOf(s) <= MaxMag

ValueOf(s) == Rat(NumOf(s), DenOf(s))

\* apply(op, value(a), value(b)) on the fractions themselves.
Apply(op, a, b) ==
    IF op = ChPlus THEN Rat(NumOf(a) * DenOf(b) + NumOf(b) * DenOf(a), DenOf(a) * DenOf(b))
    ELSE IF op = ChMinus THEN Rat(NumOf(a) * DenOf(b) - NumOf(b) * DenOf(a), DenOf(a) * DenOf(b))
    ELSE IF op = ChStar THEN Rat(NumOf(a) * NumOf(b), DenOf(a) * DenOf(b))
    ELSE Rat(NumOf(a) * DenOf(b), DenOf(a) * NumOf(b))

\* The place of the operator in typed, and the two operands around it.
OpPos(t) == CHOOSE k \in 1 .. Len(t) : IsOperator(t[k])
Calculated(t) ==
    /\ Len(t) >= 4
    /\ t[Len(t)] = ChEquals
    /\ \E k \in 1 .. Len(t) : IsOperator(t[k])
LitA(t) == SubSeq(t, 1, OpPos(t) - 1)
LitB(t) == SubSeq(t, OpPos(t) + 1, Len(t) - 1)

\* C11: on a fresh machine, after the keys of a literal a, an operator op,
\* the keys of a literal b (not zero when op is '/') and '=' have been
\* dispatched, the state is STATE_SHOW_RESULT, op1 = value(a),
\* current_op = op, op2 = value(b) and result = apply(op, value(a),
\* value(b)); for the fixed-point decimals the model follows.  (Every key of
\* such a calculation is dispatched by a branch of CalculationStep.)
C11_FullCalculation ==
    /\ (pc = "returned") =>
           \/ state = "STATE_ENTER_FIRST" /\ (IsDigitOrDot(retChar) \/ IsOperator(retChar))
           \/ state = "STATE_ENTER_SECOND" /\ (IsDigitOrDot(retChar) \/ IsEquals(retChar))
    /\ (pc = "press" /\ Calculated(typed)) =>
           LET a  == LitA(typed)
               b  == LitB(typed)
               op == typed[OpPos(typed)]
           IN  (/\ IsLiteral(a) /\ IsLiteral(b)
                /\ InRange(a) /\ InRange(b)
                /\ ~(op = ChSlash /\ NumOf(b) = 0))
               => /\ state = "STATE_SHOW_RESULT"
                  /\ op1 = ValueOf(a)
                  /\ current_op = op
                  /\ op2 = ValueOf(b)
                  /\ result = Apply(op, a, b)

\* "3.7", '-', "7.3", '=' have been dispatched: the result is -3.6.
C11_Witness ==
    /\ pc = "press"
    /\ typed = << 51, 46, 55, 45, 55, 46, 51, 61 >>
    /\ state = "STATE_SHOW_RESULT"
    /\ result = [n |-> -18, d |-> 5]

\* ------------------------------------------------------------------ C12
\* The buffer holds a literal of value zero: only '0' and '.', and a '0'.
ZeroEntry(e) ==
    /\ \A i \in 1 .. strlen(e) : Str(e)[i] \in {ChZero, ChDot}
    /\ \E i \in 1 .. strlen(e) : Str(e)[i] = ChZero

\* The first 15 columns of the two lines show the two error messages.
ShowsDivBy0(l) ==
    /\ \A i \in 1 .. Len(MsgDivBy0) : l.line[1][i] = MsgDivBy0[i]
    /\ \A i \in 1 .. Len(MsgPressKey) : l.line[2][i] = MsgPressKey[i]

\* C12: '=' dispatched in STATE_ENTER_SECOND with the operator '/' and a
\* buffer whose value is zero leads to STATE_SHOW_RESULT, the two error
\* messages are displayed, and result keeps the value it had before this
\* '='; an operator dispatched in STATE_SHOW_RESULT takes op1 from result,
\* so it chains from that earlier result.
C12_DivisionByZero ==
    [][ /\ (/\ pc = "returned" /\ state = "STATE_ENTER_SECOND"
            /\ IsEquals(retChar) /\ current_op = ChSlash /\ ZeroEntry(entry))
           => /\ state' = "STATE_SHOW_RESULT"
              /\ ShowsDivBy0(lcd')
              /\ result' = result
        /\ (pc = "returned" /\ state = "STATE_SHOW_RESULT" /\ IsOperator(retChar))
           => op1' = result
      ]_vars

\* '7', '=', '/', '=': the division of 7 by the fresh "0" was refused, the
\* messages are shown and result is still the 7 of the first '='.
C12_Witness ==
    /\ pc = "press"
    /\ state = "STATE_SHOW_RESULT"
    /\ retChar = ChEquals
    /\ current_op = ChSlash
    /\ IsZero(op2)
    /\ op1 = [n |-> 7, d |-> 1]
    /\ result = [n |-> 7, d |-> 1]
    /\ ShowsDivBy0(lcd)

\* ------------------------------------------------------------------ C13
\* apply(op, x, y) on doubles.
ApplyV(op, x, y) ==
    IF op = ChPlus THEN DAdd(x, y)
    ELSE IF op = ChMinus THEN DSub(x, y)
    ELSE IF op = ChStar THEN DMul(x, y)
    ELSE DDiv(x, y)

\* typed is a complete chained operation: an operator, a literal b, '='.
ChainDone(t) ==
    /\ Len(t) >= 3
    /\ IsOperator(t[1])
    /\ t[Len(t)] = ChEquals
    /\ IsLiteral(SubSeq(t, 2, Len(t) - 1))
    /\ InRange(SubSeq(t, 2, Len(t) - 1))
    /\ ~(t[1] = ChSlash /\ NumOf(SubSeq(t, 2, Len(t) - 1)) = 0)

\* C13: an operator op dispatched in STATE_SHOW_RESULT sets op1 to the
\* previous result, current_op to op, op2 to 0, the buffer to "0" and the
\* state to STATE_ENTER_SECOND; and once the keys of a literal b and '=' have
\* followed, result = apply(op, previous result, value(b)), with op1 still
\* the previous result.  This holds of every chained operation of a run,
\* the first and the later ones.
C13_Chaining ==
    /\ [][ (pc = "returned" /\ state = "STATE_SHOW_RESULT" /\ IsOperator(retChar))
           => /\ op1' = result
              /\ current_op' = retChar
              /\ op2' = Zero
              /\ Str(entry') = << ChZero >>
              /\ state' = "STATE_ENTER_SECOND" ]_vars
    /\ []((pc = "press" /\ ChainDone(typed))
           => LET b == SubSeq(typed, 2, Len(typed) - 1)
              IN  /\ state = "STATE_SHOW_RESULT"
                  /\ op1 = prev
                  /\ current_op = typed[1]
                  /\ op2 = ValueOf(b)
                  /\ result = ApplyV(typed[1], prev, ValueOf(b)))

\* Two chained operations in a row: from the result 0 of a first '=', "+3="
\* gave 3 and "*3=" then gave 9, shown under the expression "3*3=".
C13_Witness ==
    /\ pc = "press"
    /\ nkeys = 7
    /\ typed = << ChStar, 51, ChEquals >>
    /\ prev = [n |-> 3, d |-> 1]
    /\ result = [n |-> 9, d |-> 1]
    /\ lcd.wrote[1] = << 51, ChStar, 51, ChEquals >>

\* ------------------------------------------------------------------ C14
\* C14: a digit or '.' dispatched in STATE_SHOW_RESULT (also after a
\* division-by-zero error) leads to STATE_ENTER_FIRST with every field of the
\* pending calculation cleared: op1 = 0, op2 = 0, current_op = none and
\* result = 0.
C14_NewCalculationClears ==
    [][ (pc = "returned" /\ state = "STATE_SHOW_RESULT" /\ IsDigitOrDot(retChar))
        => /\ state' = "STATE_ENTER_FIRST"
           /\ IsZero(op1')
           /\ IsZero(op2')
           /\ current_op' = 0
           /\ IsZero(result')
      ]_vars

\* ------------------------------------------------------------------ C15
\* C15: '=' dispatched in STATE_SHOW_RESULT changes nothing: the state, the
\* buffer, op1, op2, current_op, result and both lines of the display are
\* as before, each time it is dispatched.
C15_EqualsOnResultNoOp ==
    [][ (pc = "returned" /\ state = "STATE_SHOW_RESULT" /\ IsEquals(retChar))
        => /\ UNCHANGED << state, entry, op1, op2, current_op, result >>
           /\ lcd'.line = lcd.line
      ]_vars

\* '=' four times on a fresh machine (SpecChain has no other way to a fourth
\* key with the buffer "0" and no operator on a result): the last three
\* changed nothing, and the bottom line still shows the result 0.
C15_Witness ==
    /\ pc = "press"
    /\ nkeys = 4
    /\ state = "STATE_SHOW_RESULT"
    /\ retChar = ChEquals
    /\ current_op = 0
    /\ Str(entry) = << ChZero >>
    /\ lcd.line[1] = BlankLine
    /\ lcd.line[2] = [i \in 1 .. LcdWidth |-> IF i = 1 THEN ChZero ELSE ChSpace]

\* ------------------------------------------------------------------ C16
\* The text t followed by blanks, on the 16 columns of a line.
Padded(t) == [i \in 1 .. LcdWidth |-> IF i <= Len(t) THEN t[i] ELSE ChSpace]

\* C16: no stale characters.  After every key dispatch each of the two lines
\* shows the text of the most recent write to that line followed by blanks,
\* and nothing of an earlier redraw, also after the division-by-zero
\* messages have replaced the expression and entry lines.  (Stated of the
\* characters the model follows.)
C16_NoStaleCharacters ==
    pc = "press" =>
        \A r \in 1 .. 2 :
            ~IsUnknown(lcd.wrote[r]) =>
                \A i \in 1 .. LcdWidth :
                    lcd.line[r][i] \in {Padded(lcd.wrote[r])[i], UnknownChar}

\* ------------------------------------------------------------------ C17
\* The last operator among the keys t, and the digits and '.' among them.
LastOperator(t) ==
    t[CHOOSE k \in 1 .. Len(t) :
          IsOperator(t[k]) /\ \A j \in (k + 1) .. Len(t) : ~IsOperator(t[j])]

TypedOperand(t) == SelectSeq(t, IsDigitOrDot)

\* C17: an operator dispatched in STATE_ENTER_SECOND only replaces
\* current_op: the state stays STATE_ENTER_SECOND and the buffer, op1, op2
\* and result are unchanged, also when digits of the second operand are
\* already in the buffer; and the '=' that follows computes with the last
\* operator pressed, on the digits typed before and after it.
C17_OperatorReplaced ==
    /\ [][ (pc = "returned" /\ state = "STATE_ENTER_SECOND" /\ IsOperator(retChar))
           => /\ current_op' = retChar
              /\ state' = "STATE_ENTER_SECOND"
              /\ UNCHANGED << entry, op1, op2, result >> ]_vars
    /\ []((pc = "press" /\ typed # << >> /\ state = "STATE_ENTER_SECOND")
           => current_op = LastOperator(typed))
    /\ []((/\ pc = "press" /\ typed # << >> /\ typed[Len(typed)] = ChEquals
            /\ IsLiteral(TypedOperand(typed)) /\ InRange(TypedOperand(typed))
            /\ ~(LastOperator(typed) = ChSlash /\ NumOf(TypedOperand(typed)) = 0))
           => /\ state = "STATE_SHOW_RESULT"
              /\ current_op = LastOperator(typed)
              /\ result = ApplyV(LastOperator(typed), prev,
                                 ValueOf(TypedOperand(typed))))

\* On a result of 3: '+', '3', then '*' with "3" already in the buffer, '3'
\* and '=': the product 3 * 33 = 99 was computed, not a sum.
C17_Witness ==
    /\ pc = "press"
    /\ typed = << ChPlus, 51, ChStar, 51, ChEquals >>
    /\ prev = [n |-> 3, d |-> 1]
    /\ current_op = ChStar
    /\ op2 = [n |-> 33, d |-> 1]
    /\ result = [n |-> 99, d |-> 1]

\* ------------------------------------------------------------------ C18
\* A call of Keypad_GetKeyIndex has been made and has returned.
CallDone == pc \in {"press", "release", "returned"} /\ nscans > 0

\* C18: the two-sample protocol.  A call of Keypad_GetKeyIndex whose first
\* scan reports no key makes that one scan and no debounce delay; any other
\* call makes exactly two scans with exactly one delay of 20000 microseconds
\* between them, also when the two scans disagree; there is never a third
\* scan.
C18_TwoSampleProtocol ==
    /\ nscans <= 2
    /\ waited \in {0, 20000}
    /\ (pc \in {"press_db", "release_db"})
           => (nscans = 1 /\ first # NoKey /\ waited = 20000)
    /\ CallDone
           => IF first = NoKey
              THEN nscans = 1 /\ waited = 0
              ELSE nscans = 2 /\ waited = 20000

\* A call in the release wait saw a key, waited, saw another key, and
\* returned -1 after these two scans.
C18_Witness ==
    /\ pc = "returned"
    /\ first \in KeyIndices
    /\ second \in KeyIndices
    /\ second # first
    /\ ret = NoKey
    /\ nscans = 2
    /\ waited = 20000

\* ------------------------------------------------------------------ C19
\* C19: Keypad_WaitForKeyIndex returns the first position that a debounced
\* read of its press-wait loop confirms (the press wait ends with that read,
\* and no confirmed read is left behind in it), it returns only in a step
\* whose debounced read reports no key, and the value it returns is that
\* first position: a read of the release wait that reports another key
\* changes neither key nor what is returned.
C19_ReturnsFirstConfirmed ==
    /\ [](InPressWait => (ret = NoKey /\ key = NoKey))
    /\ [][ /\ (InPressWait /\ ret' # NoKey)
               => (pc' = "release" /\ key' = ret' /\ first' = ret' /\ second' = ret')
           /\ InReleaseWait => key' = key
           /\ (pc # "returned" /\ pc' = "returned")
               => (InReleaseWait /\ ret' = NoKey /\ retChar' = Keypad_Map[key])
         ]_vars

\* K5 was confirmed; in the release wait a debounced read has reported K0,
\* held together with K5: key is still 5.
C19_Witness ==
    /\ pc = "release"
    /\ key = 5
    /\ ret = 0
    /\ stillPressed = 0
    /\ pressed = {0, 5}

\* ------------------------------------------------------------------ C20
\* The state the transition table gives for a key of each class.
TableNext(s, k) ==
    IF IsOperator(k) THEN "STATE_ENTER_SECOND"
    ELSE IF IsEquals(k) THEN "STATE_SHOW_RESULT"
    ELSE IF s = "STATE_SHOW_RESULT" THEN "STATE_ENTER_FIRST"
    ELSE s

\* C20: the machine starts in STATE_ENTER_FIRST; every key of the keypad is
\* a digit or '.', an operator, or '='; the step that dispatches a key leaves
\* the machine in the state the table gives for the class of the key (an
\* operator: STATE_ENTER_SECOND; '=': STATE_SHOW_RESULT, on the
\* division-by-zero path too; a digit or '.': the same state, or
\* STATE_ENTER_FIRST from STATE_SHOW_RESULT); no other step changes the
\* state, and no step goes from STATE_ENTER_SECOND to STATE_ENTER_FIRST.
C20_TransitionTable ==
    /\ state = "STATE_ENTER_FIRST"
    /\ [](Dispatching =>
            (IsDigitOrDot(retChar) \/ IsOperator(retChar) \/ IsEquals(retChar)))
    /\ [][ /\ (Dispatching /\ pc' # pc) => state' = TableNext(state, retChar)
           /\ ~(Dispatching /\ pc' # pc) => state' = state
           /\ ~(state = "STATE_ENTER_SECOND" /\ state' = "STATE_ENTER_FIRST")
         ]_vars

\* '7' '=' '/' '=': the '=' of STATE_ENTER_FIRST shows 7, the '/' chains it
\* into STATE_ENTER_SECOND, and the '=' on the untouched "0" takes the
\* division-by-zero path into STATE_SHOW_RESULT.
C20_Witness ==
    /\ pc = "press"
    /\ nkeys = 4
    /\ state = "STATE_SHOW_RESULT"
    /\ retChar = ChEquals
    /\ current_op = ChSlash
    /\ op1 = [n |-> 7, d |-> 1]
    /\ result = [n |-> 7, d |-> 1]
    /\ ShowsDivBy0(lcd)

\* ------------------------------------------------------------------ C21
\* The four operator characters.
Operators == {ChPlus, ChMinus, ChStar, ChSlash}

\* The step dispatches '=' in STATE_ENTER_SECOND.
EqualsInSecond ==
    /\ Dispatching
    /\ pc' # pc
    /\ state = "STATE_ENTER_SECOND"
    /\ IsEquals(retChar)

\* C21: in STATE_ENTER_SECOND current_op is one of '+', '-', '*', '/'; a
\* '=' dispatched there either takes the division-by-zero path (result
\* untouched, the two messages shown) or assigns result from the branch of
\* its operator; current_op is 0 only in STATE_ENTER_FIRST, or in a
\* STATE_SHOW_RESULT entered by '=' from STATE_ENTER_FIRST and not left
\* since.
C21_OperatorNeverNone ==
    /\ [](state = "STATE_ENTER_SECOND" => current_op \in Operators)
    /\ [](current_op = 0 => state \in {"STATE_ENTER_FIRST", "STATE_SHOW_RESULT"})
    /\ [][ /\ EqualsInSecond =>
                  \/ /\ current_op = ChSlash
                     /\ IsZero(op2')
                     /\ result' = result
                     /\ ShowsDivBy0(lcd')
                  \/ /\ ~(current_op = ChSlash /\ IsZero(op2'))
                     /\ \/ current_op = ChPlus /\ result' = DAdd(op1, op2')
                        \/ current_op = ChMinus /\ result' = DSub(op1, op2')
                        \/ current_op = ChStar /\ result' = DMul(op1, op2')
                        \/ current_op = ChSlash /\ result' = DDiv(op1, op2')
           /\ (current_op' = 0 /\ state' = "STATE_SHOW_RESULT") =>
                  \/ /\ Dispatching
                     /\ state = "STATE_ENTER_FIRST"
                     /\ IsEquals(retChar)
                  \/ /\ state = "STATE_SHOW_RESULT"
                     /\ current_op = 0
         ]_vars

\* '7' '*' '7' '=': the '=' of STATE_ENTER_SECOND has assigned 49 from the
\* multiplication branch.
C21_Witness ==
    /\ pc = "press"
    /\ nkeys = 4
    /\ state = "STATE_SHOW_RESULT"
    /\ retChar = ChEquals
    /\ current_op = ChStar
    /\ op1 = [n |-> 7, d |-> 1]
    /\ op2 = [n |-> 7, d |-> 1]
    /\ result = [n |-> 49, d |-> 1]

====
